---- MODULE Spec2Model ----
(***************************************************************************)
(* Model of the ownership-gated key/value contract ExampleContract         *)
(* (src/src/lib.rs): change_val, use_sig and get over the contract's data  *)
(* store.  Each invocation runs to completion as one atomic step of the    *)
(* host; a panic aborts the invocation.                                    *)
(***************************************************************************)
EXTENDS Naturals, FiniteSets, Sequences, TLC

\* ------------------------------------------------------------------ bounds
\* Number of distinct keys (Bytes values) handed to the contract.
NumKeys == 2

Keys == 1..NumKeys

\* The accounts of the ledger, and the one other contract that calls in.
AccountIds == {"a1", "a2"}
OtherContract == "other"
CurrentContract == "this"

\* ------------------------------------------------------------ identities
\* Address of an invoker: Address::Account(id) | Address::Contract(id).
\* The host forbids re-entry, so the contract is never its own invoker.
Addresses ==
    [kind : {"AccountAddr"}, addr : AccountIds]
        \cup {[kind |-> "ContractAddr", addr |-> OtherContract]}

\* Identifier::Contract(e.current_contract())
SelfId == [tag |-> "Contract", id |-> CurrentContract]

\* The identifiers callers pass as `value`: Identifier::Account(id) for each
\* account, and the contract's own identifier.
Identifiers == [tag : {"Account"}, id : AccountIds] \cup {SelfId}

\* Fault: the arms of the match swapped, an account becoming a contract id.
InvokerId_Swapped(invoker) ==
    IF invoker.kind = "AccountAddr"
    THEN [tag |-> "Contract", id |-> invoker.addr]
    ELSE [tag |-> "Account", id |-> invoker.addr]

\* match e.invoker() { Address::Account(id) => Identifier::Account(id),
\*                     Address::Contract(id) => Identifier::Contract(id) }
InvokerId(invoker) ==
    IF invoker.kind = "AccountAddr"
    THEN [tag |-> "Account", id |-> invoker.addr]
    ELSE [tag |-> "Contract", id |-> invoker.addr]

\* Placeholders for the inputs and results a call does not have.
NoAddr == [kind |-> "None", addr |-> "none"]
NoSig == [kind |-> "None"]
NoId == [tag |-> "None", id |-> "none"]

\* ------------------------------------------------------------ signatures
\* A payload is what an explicit signature was made over: the function
\* symbol with the argument tuple (key, value), or bytes that are no valid
\* signature of anything.
Payloads ==
    {<<"forged">>} \cup {<<"change", k, v>> : k \in Keys, v \in Identifiers}

\* Signature::Invoker | Signature::Account(account_id, signatures)
InvokerSig == [kind |-> "Invoker"]
ExplicitSigs == [kind : {"Account"}, signer : AccountIds, payload : Payloads]
Signatures == {InvokerSig} \cup ExplicitSigs

\* Fault: Signature::Invoker resolved to the running contract, not its invoker.
SigIdentifier_InvokerAsSelf(sig, invoker) ==
    IF sig.kind = "Invoker"
    THEN SelfId
    ELSE [tag |-> "Account", id |-> sig.signer]

\* Fault: the signer taken to be the invoker whatever the signature is.
SigIdentifier_AlwaysInvoker(sig, invoker) == InvokerId(invoker)

\* sig.identifier(&e)
SigIdentifier(sig, invoker) ==
    IF sig.kind = "Invoker"
    THEN InvokerId(invoker)
    ELSE [tag |-> "Account", id |-> sig.signer]

\* Fault: verification that accepts whatever it is given.
Verify_Skipped(sig, key, value) == TRUE

\* Fault: verification of the function symbol alone, the arguments unchecked.
Verify_TagOnly(sig, key, value) ==
    IF sig.kind = "Invoker"
    THEN TRUE
    ELSE sig.payload[1] = "change"

\* verify(&e, &sig, symbol!("change"), (key, value)): TRUE when it returns,
\* FALSE when it panics.  Signature::Invoker carries nothing to verify.
Verify(sig, key, value) ==
    IF sig.kind = "Invoker"
    THEN TRUE
    ELSE sig.payload = <<"change", key, value>>

\* ----------------------------------------------------------------- store
\* e.data(): a map from the keys that have an entry to identifiers.
Stores == UNION {[D -> Identifiers] : D \in SUBSET Keys}

\* Fault: set that ignores the key and overwrites every entry.
Set_AllKeys(d, key, value) ==
    [k \in (DOMAIN d) \cup {key} |-> value]

\* Fault: set that replaces the whole map by the one entry.
Set_OnlyThisKey(d, key, value) ==
    [k \in {key} |-> value]

\* e.data().set(key, value)
Set(d, key, value) ==
    [k \in (DOMAIN d) \cup {key} |-> IF k = key THEN value ELSE d[k]]

\* e.data().get(key).unwrap_or_else(|| Ok(Identifier::Contract(current))).unwrap()
StoredAddr(d, key) ==
    IF key \in DOMAIN d THEN d[key] ELSE SelfId

\* ------------------------------------------------------- faulty handlers
\* Variants of the handlers below, each with one fault, used to show that the
\* properties at the end of the module depend on the handlers' logic.

\* Fault: no branch for a key without an entry; the invoker is always compared.
change_val_out_OwnerCheckOnly(d, invoker, key, value) ==
    IF StoredAddr(d, key) # InvokerId(invoker)
    THEN [data |-> d, outcome |-> "NotAuthorized"]
    ELSE [data |-> Set(d, key, value), outcome |-> "Ok"]

\* Fault: the comparison of the invoker with the owner left out.
change_val_out_NoOwnerCheck(d, invoker, key, value) ==
    [data |-> Set(d, key, value), outcome |-> "Ok"]

\* Fault: the entry written before the signature is verified.
use_sig_out_SetBeforeVerify(d, invoker, sig, key, value) ==
    LET stored_addr == StoredAddr(d, key) IN
    IF stored_addr = SelfId
    THEN [data |-> Set(d, key, value), outcome |-> "Ok",
          resolved |-> FALSE, verify |-> "notcalled"]
    ELSE IF stored_addr # SigIdentifier(sig, invoker)
         THEN [data |-> d, outcome |-> "NotAuthorized",
               resolved |-> TRUE, verify |-> "notcalled"]
         ELSE IF ~Verify(sig, key, value)
              THEN [data |-> Set(d, key, value), outcome |-> "InvalidSignature",
                    resolved |-> TRUE, verify |-> "failed"]
              ELSE [data |-> Set(d, key, value), outcome |-> "Ok",
                    resolved |-> TRUE, verify |-> "passed"]

\* Fault: the comparison of the signer with the owner left out.
use_sig_out_NoSignerCheck(d, invoker, sig, key, value) ==
    LET stored_addr == StoredAddr(d, key) IN
    IF stored_addr = SelfId
    THEN [data |-> Set(d, key, value), outcome |-> "Ok",
          resolved |-> FALSE, verify |-> "notcalled"]
    ELSE IF ~Verify(sig, key, value)
         THEN [data |-> d, outcome |-> "InvalidSignature",
               resolved |-> FALSE, verify |-> "failed"]
         ELSE [data |-> Set(d, key, value), outcome |-> "Ok",
               resolved |-> FALSE, verify |-> "passed"]

\* Fault (with respect to the code): an unclaimed key recognised by the
\* absence of an entry, not by comparing the defaulted owner with SelfId.
use_sig_out_AbsenceCheck(d, invoker, sig, key, value) ==
    IF key \notin DOMAIN d
    THEN [data |-> Set(d, key, value), outcome |-> "Ok",
          resolved |-> FALSE, verify |-> "notcalled"]
    ELSE IF d[key] # SigIdentifier(sig, invoker)
         THEN [data |-> d, outcome |-> "NotAuthorized",
               resolved |-> TRUE, verify |-> "notcalled"]
         ELSE IF ~Verify(sig, key, value)
              THEN [data |-> d, outcome |-> "InvalidSignature",
                    resolved |-> TRUE, verify |-> "failed"]
              ELSE [data |-> Set(d, key, value), outcome |-> "Ok",
                    resolved |-> TRUE, verify |-> "passed"]

\* Fault: the signature verified first, whether or not the key has an owner.
use_sig_out_VerifyFirst(d, invoker, sig, key, value) ==
    LET stored_addr == StoredAddr(d, key) IN
    IF ~Verify(sig, key, value)
    THEN [data |-> d, outcome |-> "InvalidSignature",
          resolved |-> FALSE, verify |-> "failed"]
    ELSE IF stored_addr = SelfId
         THEN [data |-> Set(d, key, value), outcome |-> "Ok",
               resolved |-> FALSE, verify |-> "passed"]
         ELSE IF stored_addr # SigIdentifier(sig, invoker)
              THEN [data |-> d, outcome |-> "NotAuthorized",
                    resolved |-> TRUE, verify |-> "passed"]
              ELSE [data |-> Set(d, key, value), outcome |-> "Ok",
                    resolved |-> TRUE, verify |-> "passed"]

\* Fault: get written with the same default as the writes, so that an entry
\* holding the contract's own identifier reads as no entry.
get_out_SentinelAsMissing(d, key) ==
    IF StoredAddr(d, key) # SelfId
    THEN [outcome |-> "Ok", ret |-> d[key]]
    ELSE [outcome |-> "KeyNotFound", ret |-> NoId]

\* --------------------------------------------------------------- handlers
\* Each handler is an operator from the store and the inputs to the store it
\* leaves, its outcome, and which collaborators it called on the way.
\*   resolved: sig.identifier was called
\*   verify:   "notcalled" | "passed" | "failed"
change_val_out(d, invoker, key, value) ==
    LET stored_addr == StoredAddr(d, key) IN
    IF stored_addr = SelfId
    THEN [data |-> Set(d, key, value), outcome |-> "Ok"]
    ELSE IF stored_addr # InvokerId(invoker)
         THEN [data |-> d, outcome |-> "NotAuthorized"]
         ELSE [data |-> Set(d, key, value), outcome |-> "Ok"]

use_sig_out(d, invoker, sig, key, value) ==
    LET stored_addr == StoredAddr(d, key) IN
    IF stored_addr = SelfId
    THEN [data |-> Set(d, key, value), outcome |-> "Ok",
          resolved |-> FALSE, verify |-> "notcalled"]
    ELSE IF stored_addr # SigIdentifier(sig, invoker)
         THEN [data |-> d, outcome |-> "NotAuthorized",
               resolved |-> TRUE, verify |-> "notcalled"]
         ELSE IF ~Verify(sig, key, value)
              THEN [data |-> d, outcome |-> "InvalidSignature",
                    resolved |-> TRUE, verify |-> "failed"]
              ELSE [data |-> Set(d, key, value), outcome |-> "Ok",
                    resolved |-> TRUE, verify |-> "passed"]

\* get: the stored identifier, or the panic "Key does not exist".
get_out(d, key) ==
    IF key \in DOMAIN d
    THEN [outcome |-> "Ok", ret |-> d[key]]
    ELSE [outcome |-> "KeyNotFound", ret |-> NoId]

\* ----------------------------------------------------------------- state
VARIABLES
    data,   \* the contract's store (e.data())
    last,   \* the most recent invocation: inputs, store before it, outcome
    prior,  \* history: the owner's change_val that `last` repeats, if any
    replay  \* history: an explicit signature under observation, and whether
            \* a call before `last` was authorized by it

vars == <<data, last, prior, replay>>

NoCall ==
    [op |-> "none", invoker |-> NoAddr, sig |-> NoSig, key |-> 0,
     value |-> NoId, pre |-> <<>>, outcome |-> "none", ret |-> NoId,
     resolved |-> FALSE, verify |-> "notcalled"]

NoRepeat == [first |-> NoAddr, outcome |-> "none"]

\* No signature is observed.
NoReplay == [sig |-> NoSig, before |-> FALSE, key |-> 0, value |-> NoId, owner |-> NoId]

\* Env::default() followed by register_contract: an empty store.
Init ==
    /\ data = <<>>
    /\ last = NoCall
    /\ prior = NoRepeat
    /\ replay = NoReplay

\* The identity of an account or contract address: same kind, same address.
IdentityOf(address) ==
    [tag |-> IF address.kind = "AccountAddr" THEN "Account" ELSE "Contract",
     id |-> address.addr]

\* `last` was change_val(key, value) invoked by the stored owner of key.
OwnerWrote(key, value) ==
    /\ last.op = "change_val"
    /\ last.key = key
    /\ last.value = value
    /\ key \in DOMAIN last.pre
    /\ last.pre[key] = IdentityOf(last.invoker)

\* `last` was a use_sig that verified the observed signature and wrote.
AcceptedObserved ==
    /\ last.op = "use_sig"
    /\ last.sig = replay.sig
    /\ last.verify = "passed"
    /\ last.outcome = "Ok"

\* The observation after one more call: the first acceptance is kept.
Observed ==
    IF AcceptedObserved /\ ~replay.before
    THEN [replay EXCEPT !.before = TRUE, !.key = last.key,
                        !.value = last.value, !.owner = last.pre[last.key]]
    ELSE replay

change_val(invoker, key, value) ==
    \E r \in {change_val_out(data, invoker, key, value)} :
        /\ data' = r.data
        /\ last' = [op |-> "change_val", invoker |-> invoker, sig |-> NoSig,
                    key |-> key, value |-> value, pre |-> data,
                    outcome |-> r.outcome, ret |-> NoId,
                    resolved |-> FALSE, verify |-> "notcalled"]
        /\ prior' = IF OwnerWrote(key, value)
                    THEN [first |-> last.invoker, outcome |-> last.outcome]
                    ELSE NoRepeat
        /\ replay' = Observed

use_sig(invoker, sig, key, value) ==
    \E r \in {use_sig_out(data, invoker, sig, key, value)} :
        /\ data' = r.data
        /\ last' = [op |-> "use_sig", invoker |-> invoker, sig |-> sig,
                    key |-> key, value |-> value, pre |-> data,
                    outcome |-> r.outcome, ret |-> NoId,
                    resolved |-> r.resolved, verify |-> r.verify]
        /\ prior' = NoRepeat
        /\ replay' = Observed

get(invoker, key) ==
    \E r \in {get_out(data, key)} :
        /\ data' = data
        /\ last' = [op |-> "get", invoker |-> invoker, sig |-> NoSig,
                    key |-> key, value |-> NoId, pre |-> data,
                    outcome |-> r.outcome, ret |-> r.ret,
                    resolved |-> FALSE, verify |-> "notcalled"]
        /\ prior' = NoRepeat
        /\ replay' = Observed

ChangeVal == \E i \in Addresses, k \in Keys, v \in Identifiers : change_val(i, k, v)

UseSig ==
    \E i \in Addresses, s \in Signatures, k \in Keys, v \in Identifiers :
        use_sig(i, s, k, v)

Get == \E i \in Addresses, k \in Keys : get(i, k)

Next == ChangeVal \/ UseSig \/ Get

Spec == Init /\ [][Next]_vars

\* One explicit signature is in circulation and anyone may present it, any
\* number of times, with any key and value; change_val moves ownership in
\* between.
InitReplay ==
    /\ data = <<>>
    /\ last = NoCall
    /\ prior = NoRepeat
    /\ \E s \in ExplicitSigs : replay = [NoReplay EXCEPT !.sig = s]

UseObserved ==
    \E i \in Addresses, k \in Keys, v \in Identifiers :
        use_sig(i, replay.sig, k, v)

NextReplay == ChangeVal \/ UseObserved \/ Get

SpecReplay == InitReplay /\ [][NextReplay]_vars

TypeOK ==
    /\ data \in Stores
    /\ last.pre \in Stores
    /\ last.outcome \in {"none", "Ok", "NotAuthorized", "InvalidSignature", "KeyNotFound"}

\* ---------------------------------------------------------------- claims
\* What the claims say about the inputs of the last call, stated without the
\* handlers' own helpers.
Wrote == last.op \in {"change_val", "use_sig"}
HadEntry == last.key \in DOMAIN last.pre
Owner == last.pre[last.key]
Explicit == last.op = "use_sig" /\ last.sig.kind = "Account"
ClaimedSigner == [tag |-> "Account", id |-> last.sig.signer]
SignedForThisCall == last.sig.payload = <<"change", last.key, last.value>>
Signer == IF last.sig.kind = "Invoker" THEN IdentityOf(last.invoker) ELSE ClaimedSigner

\* The keys that gained an entry, and those that lost one, in the last call.
Gained == (DOMAIN data) \ (DOMAIN last.pre)
Lost == (DOMAIN last.pre) \ (DOMAIN data)

\* The store d with the entry of key taken out.
Without(d, key) == [k \in (DOMAIN d) \ {key} |-> d[k]]

\* C1: change_val on a key owned by A, invoked by anyone other than A, fails
\* with NotAuthorized and a read of the key afterwards still returns A, for
\* every A that can be stored (the contract's own identifier included).
C1_NonOwnerRejected ==
    (last.op = "change_val" /\ HadEntry /\ IdentityOf(last.invoker) # Owner)
        => /\ last.outcome = "NotAuthorized"
           /\ get_out(data, last.key) = [outcome |-> "Ok", ret |-> Owner]

\* C2: change_val on a key with no entry succeeds for every invoker and value,
\* and a read of the key right after returns the value.
C2_UnclaimedWriteThenRead ==
    (last.op = "change_val" /\ ~HadEntry)
        => /\ last.outcome = "Ok"
           /\ get_out(data, last.key) = [outcome |-> "Ok", ret |-> last.value]

C2_Witness ==
    /\ last.op = "change_val"
    /\ ~HadEntry
    /\ last.invoker.kind = "ContractAddr"
    /\ last.value.tag = "Account"
    /\ last.outcome = "Ok"
    /\ data[last.key] = last.value

\* C3: change_val on a key owned by A, invoked by A, succeeds, stores the new
\* value as the owner of the key, and a read right after returns it.
C3_OwnerWriteThenRead ==
    (last.op = "change_val" /\ HadEntry /\ IdentityOf(last.invoker) = Owner)
        => /\ last.outcome = "Ok"
           /\ last.key \in DOMAIN data
           /\ data[last.key] = last.value
           /\ get_out(data, last.key) = [outcome |-> "Ok", ret |-> last.value]

C3_Witness ==
    /\ last.op = "change_val"
    /\ HadEntry
    /\ IdentityOf(last.invoker) = Owner
    /\ last.value # Owner
    /\ last.outcome = "Ok"
    /\ data[last.key] = last.value

\* C4: use_sig with an explicit signature whose claimed signer is the stored
\* owner, but which is not a valid signature of this call, ends in
\* InvalidSignature and leaves the store as it was.
C4_ForgedOwnerSignatureRejected ==
    (Explicit /\ HadEntry /\ ClaimedSigner = Owner /\ ~SignedForThisCall)
        => /\ last.outcome = "InvalidSignature"
           /\ data = last.pre

C4_Witness ==
    /\ Explicit
    /\ HadEntry
    /\ ClaimedSigner = Owner
    /\ last.sig.payload = <<"forged">>
    /\ last.outcome = "InvalidSignature"
    /\ data = last.pre

\* C5: from every store, for every invoker, key and value, use_sig with
\* Signature::Invoker and change_val end with the same outcome and the same
\* store.
C5_InvokerSigEqualsChangeVal ==
    /\ \A i \in Addresses, k \in Keys, v \in Identifiers :
          LET c == change_val_out(data, i, k, v)
              u == use_sig_out(data, i, InvokerSig, k, v)
          IN  c.outcome = u.outcome /\ c.data = u.data
    /\ (last.op = "use_sig" /\ last.sig = InvokerSig)
          => LET c == change_val_out(last.pre, last.invoker, last.key, last.value)
             IN  c.outcome = last.outcome /\ c.data = data
    /\ (last.op = "use_sig" /\ last.sig = InvokerSig)
          => last.outcome \in {"Ok", "NotAuthorized"}

C5_Witness ==
    /\ last.op = "use_sig"
    /\ last.sig = InvokerSig
    /\ HadEntry
    /\ Owner # SelfId
    /\ IdentityOf(last.invoker) = Owner
    /\ last.value # Owner
    /\ last.outcome = "Ok"
    /\ data[last.key] = last.value

\* C6: a write either succeeds with the entry of its key equal to the
\* requested value, or fails with NotAuthorized or InvalidSignature and the
\* whole store as it was before the call.
C6_WriteAtomic ==
    Wrote
        => \/ /\ last.outcome = "Ok"
              /\ last.key \in DOMAIN data
              /\ data[last.key] = last.value
           \/ /\ last.outcome \in {"NotAuthorized", "InvalidSignature"}
              /\ data = last.pre

C6_Witness ==
    /\ Explicit
    /\ HadEntry
    /\ ClaimedSigner = Owner
    /\ last.value # Owner
    /\ last.sig.payload # <<"forged">>
    /\ ~SignedForThisCall
    /\ last.outcome = "InvalidSignature"
    /\ data = last.pre

\* C7: use_sig on a key that has an entry compares the signer with the owner
\* before verifying: a signer other than the owner gets NotAuthorized with
\* the verifier never called, and every successful write passed verification.
C7_CompareBeforeVerify ==
    (last.op = "use_sig" /\ HadEntry)
        => /\ (Signer # Owner)
                 => (last.outcome = "NotAuthorized" /\ last.verify = "notcalled")
           /\ (last.outcome = "Ok") => (last.verify = "passed")

\* C8: use_sig on a key with no entry succeeds and stores the value for every
\* signature, invoker and value, with the signer never resolved and the
\* verifier never called, also for a signature that is not valid.
C8_UnclaimedSigWriteUnverified ==
    (last.op = "use_sig" /\ ~HadEntry)
        => /\ last.outcome = "Ok"
           /\ last.key \in DOMAIN data
           /\ data[last.key] = last.value
           /\ ~last.resolved
           /\ last.verify = "notcalled"

C8_Witness ==
    /\ Explicit
    /\ ~HadEntry
    /\ last.sig.payload = <<"forged">>
    /\ last.outcome = "Ok"
    /\ data[last.key] = last.value
    /\ last.verify = "notcalled"

\* C9: get returns the stored identifier when the key has an entry (the
\* contract's own identifier included), fails with KeyNotFound exactly when
\* it has none, and leaves the store unchanged either way.
C9_GetReadsEntry ==
    (last.op = "get")
        => /\ data = last.pre
           /\ HadEntry => (last.outcome = "Ok" /\ last.ret = Owner)
           /\ ~HadEntry => (last.outcome = "KeyNotFound" /\ last.ret = NoId)

C9_Witness ==
    /\ last.op = "get"
    /\ HadEntry
    /\ Owner = SelfId
    /\ last.outcome = "Ok"
    /\ last.ret = SelfId

\* C10 as stated: when the owner A of a key invokes change_val(k, v) twice in
\* succession, both calls succeed and the second leaves the store as the
\* first left it, for every v.
C10_OwnerTwice ==
    (prior # NoRepeat /\ last.invoker = prior.first)
        => /\ prior.outcome = "Ok"
           /\ last.outcome = "Ok"
           /\ data = last.pre

\* C10 amended: after the owner A's change_val(k, v), which succeeds, a second
\* change_val(k, v) succeeds and leaves the store as the first left it when
\* its invoker is the identity v that now owns the key (A itself only when
\* v = A); invoked by A with v neither A nor the contract's own identifier,
\* it fails with NotAuthorized, the store again as the first call left it.
C10_RepeatByCurrentOwner ==
    (prior # NoRepeat)
        => /\ prior.outcome = "Ok"
           /\ last.pre[last.key] = last.value
           /\ (IdentityOf(last.invoker) = last.value)
                 => (last.outcome = "Ok" /\ data = last.pre)
           /\ (last.invoker = prior.first
                 /\ last.value \notin {IdentityOf(prior.first), SelfId})
                 => (last.outcome = "NotAuthorized" /\ data = last.pre)

C10_Witness ==
    /\ prior # NoRepeat
    /\ prior.outcome = "Ok"
    /\ last.invoker # prior.first
    /\ IdentityOf(last.invoker) = last.value
    /\ last.outcome = "Ok"
    /\ data = last.pre

\* C11: a key gets an entry only through a successful write to that key, and
\* what is stored then is the requested value (never the self-identity that
\* stood in for the missing entry); no call removes an entry; a read or a
\* failed write leaves the set of keys with an entry as it was.
C11_EntriesOnlyByWrite ==
    /\ Lost = {}
    /\ \A k \in Gained :
          /\ Wrote
          /\ last.outcome = "Ok"
          /\ k = last.key
          /\ data[k] = last.value
    /\ (last.op = "get" \/ last.outcome # "Ok") => (Gained = {} /\ data = last.pre)

C11_Witness ==
    /\ last.op = "use_sig"
    /\ last.outcome = "Ok"
    /\ last.value # SelfId
    /\ DOMAIN last.pre # {}
    /\ Gained = {last.key}
    /\ data[last.key] = last.value
    /\ \A k \in DOMAIN last.pre : k \in DOMAIN data

\* C12: use_sig with an explicit signature on a key that has an entry verifies
\* the signature against the symbol "change" and the (key, value) of this
\* call: a signature by the current owner made over (k1, v1) is rejected with
\* InvalidSignature, the store unchanged, when the call's (key, value) is
\* anything else, and passes verification when it is (k1, v1).
C12_SignatureBoundToCall ==
    (Explicit /\ HadEntry /\ ClaimedSigner = Owner /\ last.sig.payload[1] = "change")
        => /\ <<last.sig.payload[2], last.sig.payload[3]>> # <<last.key, last.value>>
                 => /\ last.outcome = "InvalidSignature"
                    /\ last.verify = "failed"
                    /\ data = last.pre
           /\ <<last.sig.payload[2], last.sig.payload[3]>> = <<last.key, last.value>>
                 => /\ last.outcome = "Ok"
                    /\ last.verify = "passed"
                    /\ data[last.key] = last.value

C12_Witness ==
    /\ Explicit
    /\ HadEntry
    /\ ClaimedSigner = Owner
    /\ last.sig.payload[1] = "change"
    /\ last.sig.payload[2] # last.key
    /\ last.sig.payload[3] = last.value
    /\ last.sig.payload[2] \in DOMAIN last.pre
    /\ last.pre[last.sig.payload[2]] = Owner
    /\ last.outcome = "InvalidSignature"
    /\ data = last.pre

\* C13: whenever the stored owner of a key changes from an identity X other
\* than the contract's own to another identity, the call that changed it was
\* a write to that key, either change_val or use_sig with Signature::Invoker
\* invoked by X, or use_sig with an explicit signature whose signer is X and
\* which passed verification.
C13_OnlyOwnerChangesOwner ==
    \A k \in DOMAIN last.pre :
        (last.pre[k] # SelfId /\ (k \notin DOMAIN data \/ data[k] # last.pre[k]))
            => /\ k = last.key
               /\ k \in DOMAIN data
               /\ last.outcome = "Ok"
               /\ \/ /\ last.op = "change_val"
                     /\ IdentityOf(last.invoker) = last.pre[k]
                  \/ /\ last.op = "use_sig"
                     /\ last.sig = InvokerSig
                     /\ IdentityOf(last.invoker) = last.pre[k]
                  \/ /\ Explicit
                     /\ ClaimedSigner = last.pre[k]
                     /\ SignedForThisCall
                     /\ last.verify = "passed"

C13_Witness ==
    /\ Explicit
    /\ HadEntry
    /\ Owner # SelfId
    /\ ClaimedSigner = Owner
    /\ IdentityOf(last.invoker) # Owner
    /\ SignedForThisCall
    /\ last.outcome = "Ok"
    /\ data[last.key] # Owner

\* C14: a key whose stored entry is the contract's own identifier is handled
\* by change_val and use_sig exactly as a key with no entry: the write
\* succeeds for every invoker and every signature, the signer is not
\* resolved and nothing is verified, so a key whose owner stored the
\* self-identity can be claimed by anyone.
C14_SelfEntryIsUnclaimed ==
    /\ (Wrote /\ HadEntry /\ Owner = SelfId)
          => /\ last.outcome = "Ok"
             /\ data[last.key] = last.value
             /\ ~last.resolved
             /\ last.verify = "notcalled"
    /\ (last.op = "change_val" /\ HadEntry /\ Owner = SelfId)
          => change_val_out(Without(last.pre, last.key),
                            last.invoker, last.key, last.value)
                = [data |-> data, outcome |-> last.outcome]
    /\ (last.op = "use_sig" /\ HadEntry /\ Owner = SelfId)
          => use_sig_out(Without(last.pre, last.key),
                         last.invoker, last.sig, last.key, last.value)
                = [data |-> data, outcome |-> last.outcome,
                   resolved |-> last.resolved, verify |-> last.verify]

C14_Witness ==
    /\ Explicit
    /\ HadEntry
    /\ Owner = SelfId
    /\ last.sig.payload = <<"forged">>
    /\ last.invoker.kind = "ContractAddr"
    /\ last.value.tag = "Account"
    /\ last.value # ClaimedSigner
    /\ last.outcome = "Ok"
    /\ data[last.key] = last.value

\* C15: a successful change_val or use_sig changes only the entry of its own
\* key: every other key has the same entry, or the same absence of one, after
\* the call as before it.
C15_OtherKeysUntouched ==
    (Wrote /\ last.outcome = "Ok")
        => \A k \in Keys \ {last.key} :
              /\ (k \in DOMAIN data) = (k \in DOMAIN last.pre)
              /\ (k \in DOMAIN last.pre) => (data[k] = last.pre[k])

C15_Witness ==
    /\ Wrote
    /\ last.outcome = "Ok"
    /\ data[last.key] = last.value
    /\ \E k \in (DOMAIN last.pre) \ {last.key} :
          /\ last.pre[k] # last.value
          /\ data[k] = last.pre[k]

\* C16: use_sig keeps no record of the signatures it has accepted: what it
\* does with an explicit signature depends only on the stored owner of the
\* key and on the signature being valid for the (key, value) of the call,
\* not on the invoker and not on earlier calls.  A signature that authorized
\* a write of (k, v) when A owned k authorizes it again in every later state
\* in which A owns k, whoever presents it.
C16_AcceptedAgain ==
    /\ (/\ replay.before
        /\ last.op = "use_sig"
        /\ last.sig = replay.sig
        /\ last.key = replay.key
        /\ last.value = replay.value
        /\ HadEntry
        /\ Owner = replay.owner)
          => /\ last.outcome = "Ok"
             /\ last.verify = "passed"
             /\ data[last.key] = last.value
    /\ (Explicit /\ HadEntry /\ Owner # SelfId)
          => /\ (last.outcome = "Ok") = (ClaimedSigner = Owner /\ SignedForThisCall)
             /\ \A i \in Addresses :
                   LET u == use_sig_out(last.pre, i, last.sig, last.key, last.value)
                   IN  u.outcome = last.outcome /\ u.data = data

C16_Witness ==
    /\ replay.before
    /\ last.op = "use_sig"
    /\ last.sig = replay.sig
    /\ last.key = replay.key
    /\ last.value = replay.value
    /\ HadEntry
    /\ Owner = replay.owner
    /\ last.value # Owner
    /\ last.value # SelfId
    /\ IdentityOf(last.invoker) # Owner
    /\ last.outcome = "Ok"
    /\ last.verify = "passed"
====
